---- MODULE Spec2Model ----
(***************************************************************************)
(* unlock_environment (src/src/unlock_environment.c): a native helper that *)
(* clears the frame-lock bit (1<<14) of an environment's flags field and   *)
(* returns R_NilValue.  The environments, their flags and their bindings   *)
(* belong to the host runtime; the host here is single-threaded            *)
(* cooperative (it runs only while no native call is in progress).         *)
(* RaceSpec lets the host run in the middle of a call as well.             *)
(***************************************************************************)
EXTENDS Integers, FiniteSets

\* ------------------------------------------------------------ bounds ----
\* number of environments the host holds
NumRecords == 2

\* --------------------------------------------------------- constants ----
\* width of a C int: the type of the literal 1 in (1<<14) and of the operands of & and ~
IntBits == 32
\* shift count of DRAKE_FRAME_LOCK_MASK
LockBit == 14

Records == 1..NumRecords
NoRecord == 0
NoValue == -1
R_NilValue == "R_NilValue"
Unset == "unset"

\* ------------------------------------------------- C integer operators ----
\* bit i (0 = lowest) of the two's complement int x, for i < IntBits - 1
Bit(x, i) == IF x >= 0 THEN (x \div (2 ^ i)) % 2 ELSE 1 - ((((-x) - 1) \div (2 ^ i)) % 2)

\* ~x on a two's complement int
BitNot(x) == (-x) - 1

\* a << n
ShiftLeft(a, n) == a * (2 ^ n)

RECURSIVE AndBits(_, _, _)
AndBits(a, b, i) ==
  IF i < 0 THEN 0 ELSE Bit(a, i) * Bit(b, i) * (2 ^ i) + AndBits(a, b, i - 1)

\* a & b, for a >= 0 (a flags value) and any int b: the sign bit of the result is 0
BitAnd(a, b) == AndBits(a, b, IntBits - 2)

\* ------------------------------------------------------ the macros ----
DRAKE_FRAME_LOCK_MASK == ShiftLeft(1, LockBit)

\* the value DRAKE_UNLOCK_FRAME hands to SET_ENVFLAGS, from the flags value f it read
UnlockNoNot(f) == BitAnd(f, DRAKE_FRAME_LOCK_MASK)
UnlockToggle(f) == IF Bit(f, LockBit) = 1 THEN f - (2 ^ LockBit) ELSE f + (2 ^ LockBit)
UnlockedFlags(f) == BitAnd(f, BitNot(DRAKE_FRAME_LOCK_MASK))

\* ------------------------------------------------------------ state ----
VARIABLES
  flags,     \* host: the flags field of each environment
  frame,     \* host: the bindings of each environment (the non-flags part)
  pc,        \* where the native call is: idle, entered, read, written, returned
  envir,     \* the call's argument
  tmp,       \* the call's temporary: the value computed from the flags read
  ret,       \* the value the call returned
  h_arg,     \* history: the environment the current call was given
  h_pre,     \* history: flags when the call was entered
  h_frame,   \* history: frame when the call was entered
  h_writes,  \* history: flag writes the call has done
  h_last,    \* history: <<environment, flags>> after the previous call, while the host has not run
  h_bits     \* history: the non-lock flag bits the host has set, per environment

vars == <<flags, frame, pc, envir, tmp, ret, h_arg, h_pre, h_frame, h_writes, h_last, h_bits>>

\* the flag bits the host sets and clears: the lowest bit and the lock bit
HostBits == {0, LockBit}
OtherBits == HostBits \ {LockBit}

RECURSIVE BitsValue(_)
BitsValue(S) ==
  IF S = {} THEN 0 ELSE LET b == CHOOSE x \in S : TRUE IN (2 ^ b) + BitsValue(S \ {b})

FlagVals == {BitsValue(S) : S \in SUBSET HostBits}

NoLast == <<NoRecord, NoValue>>
ZeroRec == [r \in Records |-> 0]

ENVFLAGS(e) == flags[e]

DRAKE_FRAME_IS_LOCKED(e) == BitAnd(ENVFLAGS(e), DRAKE_FRAME_LOCK_MASK)

Init ==
  /\ flags \in [Records -> FlagVals]
  /\ frame = ZeroRec
  /\ pc = "idle"
  /\ envir = NoRecord
  /\ tmp = NoValue
  /\ ret = Unset
  /\ h_arg = NoRecord
  /\ h_pre = ZeroRec
  /\ h_frame = ZeroRec
  /\ h_writes = 0
  /\ h_last = NoLast
  /\ h_bits = [r \in Records |-> {b \in OtherBits : Bit(flags[r], b) = 1}]

\* ----------------------------------------------- unlock_environment ----
\* the host's native-call dispatch enters unlock_environment(e)
Call(e) ==
  /\ pc = "idle"
  /\ pc' = "entered"
  /\ envir' = e
  /\ h_arg' = e
  /\ h_pre' = flags
  /\ h_frame' = frame
  /\ h_writes' = 0
  /\ UNCHANGED <<flags, frame, tmp, ret, h_last, h_bits>>

\* DRAKE_UNLOCK_FRAME, first half: ENVFLAGS(e) & (~ DRAKE_FRAME_LOCK_MASK)
ReadFlagsChecked ==
  /\ pc = "entered"
  /\ IF DRAKE_FRAME_IS_LOCKED(envir) # 0
       THEN pc' = "read" /\ tmp' = UnlockedFlags(ENVFLAGS(envir))
       ELSE pc' = "error" /\ tmp' = tmp
  /\ UNCHANGED <<flags, frame, envir, ret, h_arg, h_pre, h_frame, h_writes, h_last, h_bits>>
ReadFlagsWait ==
  /\ pc = "entered"
  /\ DRAKE_FRAME_IS_LOCKED(envir) # 0
  /\ pc' = "read"
  /\ tmp' = UnlockedFlags(ENVFLAGS(envir))
  /\ UNCHANGED <<flags, frame, envir, ret, h_arg, h_pre, h_frame, h_writes, h_last, h_bits>>
ReadFlags ==
  /\ pc = "entered"
  /\ pc' = "read"
  /\ tmp' = UnlockedFlags(ENVFLAGS(envir))
  /\ UNCHANGED <<flags, frame, envir, ret, h_arg, h_pre, h_frame, h_writes, h_last, h_bits>>

\* DRAKE_UNLOCK_FRAME, second half: SET_ENVFLAGS(e, <the value computed>)
WriteFlagsAll ==
  /\ pc = "read"
  /\ pc' = "written"
  /\ flags' = [r \in Records |-> tmp]
  /\ h_writes' = h_writes + 1
  /\ UNCHANGED <<frame, envir, tmp, ret, h_arg, h_pre, h_frame, h_last, h_bits>>
WriteFlags ==
  /\ pc = "read"
  /\ pc' = "written"
  /\ flags' = [flags EXCEPT ![envir] = tmp]
  /\ h_writes' = h_writes + 1
  /\ UNCHANGED <<frame, envir, tmp, ret, h_arg, h_pre, h_frame, h_last, h_bits>>

\* return R_NilValue; the call's argument and temporary go with its stack frame
ReturnEnvir ==
  /\ pc = "written"
  /\ pc' = "returned"
  /\ ret' = "envir"
  /\ envir' = NoRecord
  /\ tmp' = NoValue
  /\ UNCHANGED <<flags, frame, h_arg, h_pre, h_frame, h_writes, h_last, h_bits>>
Return ==
  /\ pc = "written"
  /\ pc' = "returned"
  /\ ret' = R_NilValue
  /\ envir' = NoRecord
  /\ tmp' = NoValue
  /\ UNCHANGED <<flags, frame, h_arg, h_pre, h_frame, h_writes, h_last, h_bits>>

\* ------------------------------------------------------------- host ----
\* the host takes the result and goes on
Resume ==
  /\ pc = "returned"
  /\ pc' = "idle"
  /\ ret' = Unset
  /\ h_last' = <<h_arg, flags[h_arg]>>
  /\ h_arg' = NoRecord
  /\ h_pre' = ZeroRec
  /\ h_frame' = ZeroRec
  /\ h_writes' = 0
  /\ UNCHANGED <<flags, frame, envir, tmp, h_bits>>

\* the host locks environment r
HostLock(r) ==
  /\ Bit(flags[r], LockBit) = 0
  /\ flags' = [flags EXCEPT ![r] = @ + (2 ^ LockBit)]
  /\ h_last' = NoLast
  /\ UNCHANGED <<frame, pc, envir, tmp, ret, h_arg, h_pre, h_frame, h_writes, h_bits>>

\* the host sets or clears another flag bit of environment r
HostSetFlag(r, b) ==
  /\ IF Bit(flags[r], b) = 0
       THEN /\ flags' = [flags EXCEPT ![r] = @ + (2 ^ b)]
            /\ h_bits' = [h_bits EXCEPT ![r] = @ \cup {b}]
       ELSE /\ flags' = [flags EXCEPT ![r] = @ - (2 ^ b)]
            /\ h_bits' = [h_bits EXCEPT ![r] = @ \ {b}]
  /\ h_last' = NoLast
  /\ UNCHANGED <<frame, pc, envir, tmp, ret, h_arg, h_pre, h_frame, h_writes>>

\* the host changes a binding of environment r, which its write protection
\* allows only while r is not locked
HostDefine(r) ==
  /\ DRAKE_FRAME_IS_LOCKED(r) = 0
  /\ frame' = [frame EXCEPT ![r] = 1 - @]
  /\ h_last' = NoLast
  /\ UNCHANGED <<flags, pc, envir, tmp, ret, h_arg, h_pre, h_frame, h_writes, h_bits>>

HostStep ==
  \E r \in Records :
    \/ HostLock(r)
    \/ \E b \in OtherBits : HostSetFlag(r, b)
    \/ HostDefine(r)

Next ==
  \/ \E e \in Records : Call(e)
  \/ ReadFlags
  \/ WriteFlags
  \/ Return
  \/ Resume
  \/ (pc = "idle" /\ HostStep)

Spec == Init /\ [][Next]_vars

\* a call that has been entered keeps running: its next statement is executed
CallStep == ReadFlags \/ WriteFlags \/ Return

FairSpec == Spec /\ WF_vars(CallStep)

\* a host with threads: it may run while a call is between its read and its write
RaceNext ==
  \/ \E e \in Records : Call(e)
  \/ ReadFlags
  \/ WriteFlags
  \/ Return
  \/ Resume
  \/ (pc \in {"idle", "entered", "read", "written"} /\ HostStep)

RaceSpec == Init /\ [][RaceNext]_vars

\* ----------------------------------------------------------- claims ----
Returned == pc = "returned"

\* bit i of a flags value n >= 0
BitOf(n, i) == (n \div (2 ^ i)) % 2

\* the bit positions of a flags value
FlagBitPositions == 0..(IntBits - 2)

\* C1: after unlock_environment(record) returns, bit 14 of the record's flags is
\* clear, whatever the flags were before: DRAKE_FRAME_IS_LOCKED(record) is 0.
C1_LockBitClear ==
  Returned => (BitOf(flags[h_arg], 14) = 0 /\ DRAKE_FRAME_IS_LOCKED(h_arg) = 0)

C1_Witness == Returned /\ BitOf(h_pre[h_arg], 14) = 1 /\ BitOf(flags[h_arg], 14) = 0

\* C2: the call leaves every bit of the flags field other than bit 14 equal to its
\* value before the call.
C2_OtherBitsKept ==
  Returned =>
    \A b \in FlagBitPositions \ {14} : BitOf(flags[h_arg], b) = BitOf(h_pre[h_arg], b)

C2_Witness ==
  /\ Returned
  /\ BitOf(h_pre[h_arg], 14) = 1
  /\ BitOf(h_pre[h_arg], 0) = 1
  /\ BitOf(flags[h_arg], 0) = 1

\* C3: the flags after the call are the prior flags f AND NOT 16384: f less 16384
\* when bit 14 of f was set, f otherwise; 16384 becomes 0 and 16385 becomes 1.
C3_AndNotMask ==
  Returned =>
    /\ flags[h_arg] = h_pre[h_arg] - 16384 * BitOf(h_pre[h_arg], 14)
    /\ (h_pre[h_arg] = 16384 => flags[h_arg] = 0)
    /\ (h_pre[h_arg] = 16385 => flags[h_arg] = 1)

C3_Witness == Returned /\ h_pre[h_arg] = 16385 /\ flags[h_arg] = 1

\* C4: a second call on the same record, with no host operation since the first
\* returned, leaves the flags the first call left.
C4_Idempotent ==
  (Returned /\ h_last[1] = h_arg) => flags[h_arg] = h_last[2]

C4_Witness ==
  Returned /\ h_last[1] = h_arg /\ flags[h_arg] = h_last[2] /\ flags[h_arg] # 0

\* C5: on a record whose bit 14 is clear before the call, the call leaves bit 14
\* clear and the whole flags field as it was.
C5_AlreadyUnlocked ==
  (Returned /\ BitOf(h_pre[h_arg], 14) = 0) =>
    (BitOf(flags[h_arg], 14) = 0 /\ flags[h_arg] = h_pre[h_arg])

C5_Witness ==
  Returned /\ BitOf(h_pre[h_arg], 14) = 0 /\ h_pre[h_arg] # 0 /\ flags[h_arg] = h_pre[h_arg]

\* C6: the call always returns R_NilValue.
C6_ReturnsNil == Returned => ret = R_NilValue

C6_Witness == Returned /\ ret = R_NilValue /\ BitOf(h_pre[h_arg], 14) = 1 /\ h_writes = 1

\* C7: the call changes only the flags of the record it was given: the flags of
\* every other record and the bindings of every record are as they were when it
\* was entered, and it keeps nothing of its own once it has returned.
C7_OnlyThatRecord ==
  /\ Returned =>
       /\ \A r \in Records \ {h_arg} : flags[r] = h_pre[r]
       /\ frame = h_frame
  /\ pc \in {"idle", "returned"} => (envir = NoRecord /\ tmp = NoValue)

C7_Witness ==
  /\ Returned
  /\ flags[h_arg] # h_pre[h_arg]
  /\ \E r \in Records \ {h_arg} : BitOf(flags[r], 14) = 1 /\ frame[r] = 1
  /\ envir = NoRecord

\* C8: no call ends in an error: the call is never anywhere but on its way to
\* its return, and it has written the flags exactly once when it returns.
C8_NoError ==
  /\ pc \in {"idle", "entered", "read", "written", "returned"}
  /\ Returned => h_writes = 1

C8_Witness == Returned /\ BitOf(h_pre[h_arg], 14) = 0 /\ h_writes = 1 /\ h_pre[h_arg] = 0

\* C9: every call that has been entered returns.
C9_Terminates == (pc = "entered") ~> Returned

C9_Witness == Returned /\ h_writes = 1 /\ ret = R_NilValue /\ h_last[1] = h_arg

\* C10: with a host that runs only between calls, the non-lock flag bits of every
\* record are always the ones the host last set, and the lock bit is clear when a
\* call has returned.
C10_NoLostUpdate ==
  /\ \A r \in Records :
       {b \in FlagBitPositions \ {14} : BitOf(flags[r], b) = 1} = h_bits[r]
  /\ Returned => BitOf(flags[h_arg], 14) = 0

\* the record was unlocked, changed and locked again by the host before this call
C10_Witness ==
  /\ Returned
  /\ frame[h_arg] = 1
  /\ BitOf(h_pre[h_arg], 14) = 1
  /\ h_bits[h_arg] = OtherBits

====
